---- MODULE Spec2Model ----
(***************************************************************************)
(* Orientation estimation and sensor calibration engine of the Polaris     *)
(* Navigator firmware: the magnetometer driver's step-based calibration    *)
(* (BMM150class), the blocking loops that drive it (BMM150class::calibrate *)
(* and IMUFusion::calibrateMagnetometer), the CalibrationManager state     *)
(* machine with its Preferences store, and the orientation filter          *)
(* IMUFusion::update with the sensor reads it makes.                       *)
(*                                                                         *)
(* Six specifications share the variables: SpecMag (the driver's          *)
(* sessions), Spec (the manager), SpecFusion (the filter), SpecYaw (the    *)
(* yaw blend of the filter on a grid of angles), SpecMahony                *)
(* (myIMU::MahonyAHRSupdate) and SpecLive (sessions under fair scheduling, *)
(* with a clock that wraps).                                               *)
(*                                                                         *)
(* Numbers: raw magnetometer samples are int16 values.  Floats are kept as *)
(* exact rationals <<n, d>> (d > 0, reduced); the one place where single   *)
(* precision rounding decides a branch (max_range * 0.3f) is computed with *)
(* its rounding, see Unbalanced.  The filter's inputs are chosen so that   *)
(* its square roots and angles are exact; overflow to infinity and NaN are *)
(* followed as single precision produces them.                             *)
(***************************************************************************)
EXTENDS Integers, Sequences, FiniteSets, TLC

VARIABLES
  millis,                    \* Arduino millis(): the monotonic clock, in ms
                             \* (negative in SpecLive: the value plus 2^32)
  \* ---- BMM150class (src/src/BMM150class.h) ----
  hard_iron,                 \* hard_iron_x, hard_iron_y, hard_iron_z
  scale,                     \* scale_x, scale_y, scale_z
  isCalibrated,              \* BMM150class::isCalibrated
  bmm_min,                   \* _min_x, _min_y, _min_z
  bmm_max,                   \* _max_x, _max_y, _max_z
  bmm_calibrationStartTime,  \* BMM150class::_calibrationStartTime
  bmm_sampleCount,           \* BMM150class::_sampleCount
  elapsedTime,               \* local elapsedTime of the last calibrateStep (0: first step)
  stepResult,                \* value returned by the last calibrateStep call
  \* ---- IMUFusion (src/src/IMUFusion.cpp) ----
  imu_isCalibrated,          \* IMUFusion::_isCalibrated
  \* ---- CalibrationManager (src/src/CalibrationManager.h) ----
  calibrationState,          \* _calibrationState
  calibrationStartTime,      \* _calibrationStartTime
  lastUpdateTime,            \* _lastUpdateTime
  calibrationData,           \* _calibrationData
  accelMin, accelMax,        \* _accelMin[3], _accelMax[3]
  magMin, magMax,            \* _magMin[3], _magMax[3]
  sampleCount,               \* _sampleCount
  preferences,               \* _preferences: the keys of the "polaris-nav" store
  phase,                     \* "constructed", then "begun", then "running"
  overwritten,               \* history: the running session has changed _calibrationData
  \* ---- IMUFusion orientation filter, BMM150class output ----
  q,                         \* _q0, _q1, _q2, _q3
  yaw, pitch, roll,          \* _yaw, _pitch, _roll (degrees)
  lastUpdate,                \* IMUFusion::_lastUpdate
  bmm_mag,                   \* mag_x, mag_y, mag_z (= prev_mag_x/y/z after a read)
  deltaTime,                 \* the step the last update() integrated with
  tick,                      \* history: the inputs of the last update()
  ticks,                     \* history: number of update() calls so far
  prevUpdateAt,              \* history: millis() at the last update() call
  magHeading,                \* update(): local magHeading of the last call
  yawDiff,                   \* update(): local yawDiff of the last call
  myIMU_q,                   \* myIMU::q[4]
  myIMU_norm,                \* MahonyAHRSupdate: local norm at the last
                             \* quaternion normalization
  myIMU_calls,               \* history: number of MahonyAHRSupdate calls
  \* ---- control ----
  pc,                        \* which blocking calibration loop is executing
  lastOp                     \* the operation that ran last

mgrVars == <<calibrationState, calibrationStartTime, lastUpdateTime,
             calibrationData, accelMin, accelMax, magMin, magMax, sampleCount,
             preferences, phase, overwritten>>

magVars == <<hard_iron, scale, isCalibrated, bmm_min, bmm_max,
             bmm_calibrationStartTime, bmm_sampleCount, elapsedTime,
             stepResult, imu_isCalibrated>>

fusVars == <<q, yaw, pitch, roll, lastUpdate, bmm_mag, deltaTime, tick, ticks,
             prevUpdateAt, magHeading, yawDiff, myIMU_q, myIMU_norm,
             myIMU_calls>>

vars == <<millis, magVars, mgrVars, fusVars, pc, lastOp>>

----------------------------------------------------------------------------
(* Bounds of the model *)

\* the clock stops advancing here
MaxMillis == 31200

\* the main loop requests a calibration only on multiples of this many ms
\* (the code uses clock differences only, so the instant itself is immaterial)
SessionSlotMs == 16000

\* iteration times of a calibration loop: delay(50), or one stalled iteration
\* that outlasts the whole collection window
LoopDelays == {50, 15000}

\* raw samples the sensor delivers (int16 triples)
RawSamples == { <<0, 0, 0>>, <<1000, 1000, 100>>, <<-200, -200, -200>>,
                <<800, 800, 240>> }

----------------------------------------------------------------------------
(* Exact rationals *)

RECURSIVE GCD(_, _)
GCD(a, b) == IF b = 0 THEN a ELSE GCD(b, a % b)

Abs(a) == IF a < 0 THEN -a ELSE a

\* n/d in lowest terms, d > 0
Rat(n, d) ==
  LET g == GCD(Abs(n), Abs(d))
      s == IF d < 0 THEN -1 ELSE 1
  IN  <<(s * n) \div g, (s * d) \div g>>

Max2(a, b) == IF a > b THEN a ELSE b
Min2(a, b) == IF a < b THEN a ELSE b

Axes == 1..3

----------------------------------------------------------------------------
(* BMM150class *)

INT16_MAX == 32767
INT16_MIN == -32768
CalibrationWindowMs == 15000

\* twice the value of range_x/y/z after the "avoid division by zero" floor:
\* range = (max - min) / 2.0f; if (range < 1.0f) range = 1.0f
Range2(mn, mx) == [i \in Axes |-> Max2(mx[i] - mn[i], 2)]

\* mutant: the half-range instead of the centre
HardIronOf_HalfRange(mn, mx) == [i \in Axes |-> Rat(mx[i] - mn[i], 2)]

\* hard_iron = (_min + _max) / 2.0f
HardIronOf(mn, mx) == [i \in Axes |-> Rat(mn[i] + mx[i], 2)]

\* scale = avg_range / range, avg_range = (range_x + range_y + range_z) / 3.0f
ScaleOf(mn, mx) ==
  LET r == Range2(mn, mx)
  IN  [i \in Axes |-> Rat(r[1] + r[2] + r[3], 3 * r[i])]

\* largest power of two that is <= m (m >= 1)
RECURSIVE Pow2Below(_, _)
Pow2Below(m, p) == IF 2 * p <= m THEN Pow2Below(m, 2 * p) ELSE p

\* min_range < max_range * 0.3f in single precision, for min_range = m/2 and
\* max_range = M/2.  0.3f is (3 * 2^24 + 2) / (10 * 2^24); the product is
\* rounded to 24 bits, so when 3M = 10m exactly it rounds up past min_range
\* iff M > 5 * 2^floor(log2 m).
Unbalanced(m, M) ==
  \/ 3 * M > 10 * m
  \/ 3 * M = 10 * m /\ M > 5 * Pow2Below(m, 1)

\* mutant: the balance check is left out
QualityOk_NoBalance(mn, mx) ==
  LET r == Range2(mn, mx)
  IN  ~(r[1] < 200 \/ r[2] < 200 \/ r[3] < 200)

\* quality_ok of calibrateStep
QualityOk(mn, mx) ==
  LET r  == Range2(mn, mx)
      hi == Max2(r[1], Max2(r[2], r[3]))
      lo == Min2(r[1], Min2(r[2], r[3]))
  IN  /\ ~(r[1] < 200 \/ r[2] < 200 \/ r[3] < 200)
      /\ ~Unbalanced(lo, hi)

\* calibrateStep(true): reset the session
CalibrateStepFirst ==
  /\ bmm_min' = [i \in Axes |-> INT16_MAX]
  /\ bmm_max' = [i \in Axes |-> INT16_MIN]
  /\ bmm_calibrationStartTime' = millis
  /\ bmm_sampleCount' = 0
  /\ elapsedTime' = 0
  /\ stepResult' = "InProgress"
  /\ UNCHANGED <<hard_iron, scale, isCalibrated>>

\* mutant: the results of a session that fails the gate are thrown away
CalibrateStepEvaluate_Discard ==
  /\ hard_iron' = IF QualityOk(bmm_min, bmm_max)
                  THEN HardIronOf(bmm_min, bmm_max) ELSE hard_iron
  /\ scale' = IF QualityOk(bmm_min, bmm_max)
              THEN ScaleOf(bmm_min, bmm_max) ELSE scale
  /\ isCalibrated' = QualityOk(bmm_min, bmm_max)
  /\ stepResult' = "Done"
  /\ UNCHANGED <<bmm_min, bmm_max, bmm_calibrationStartTime, bmm_sampleCount>>

\* calibrateStep(false) once 15 s have elapsed: evaluate
CalibrateStepEvaluate ==
  /\ hard_iron' = HardIronOf(bmm_min, bmm_max)
  /\ scale' = ScaleOf(bmm_min, bmm_max)
  /\ isCalibrated' = QualityOk(bmm_min, bmm_max)
  /\ stepResult' = "Done"
  /\ UNCHANGED <<bmm_min, bmm_max, bmm_calibrationStartTime, bmm_sampleCount>>

\* calibrateStep(false) before that: read one sample, update min/max
CalibrateStepCollect(s) ==
  /\ bmm_min' = [i \in Axes |-> IF s[i] < bmm_min[i] THEN s[i] ELSE bmm_min[i]]
  /\ bmm_max' = [i \in Axes |-> IF s[i] > bmm_max[i] THEN s[i] ELSE bmm_max[i]]
  /\ bmm_sampleCount' = bmm_sampleCount + 1
  /\ stepResult' = "InProgress"
  /\ UNCHANGED <<hard_iron, scale, isCalibrated, bmm_calibrationStartTime>>

\* mutant: the session also ends on a sample target of 100
calibrateStep_SampleTarget(firstStep, s) ==
  IF firstStep
  THEN CalibrateStepFirst
  ELSE /\ elapsedTime' = millis - bmm_calibrationStartTime
       /\ IF elapsedTime' >= CalibrationWindowMs \/ bmm_sampleCount >= 100
          THEN CalibrateStepEvaluate
          ELSE CalibrateStepCollect(s)

\* a >= b for two unsigned long values, a negative number standing for the
\* value plus 2^32
UGe(a, b) == IF (a < 0) = (b < 0) THEN a >= b ELSE a < 0

\* mutant: the end of the window is found by comparing millis() with
\* _calibrationStartTime + 15000
calibrateStep_Deadline(firstStep, s) ==
  IF firstStep
  THEN CalibrateStepFirst
  ELSE /\ elapsedTime' = millis - bmm_calibrationStartTime
       /\ IF UGe(millis, bmm_calibrationStartTime + CalibrationWindowMs)
          THEN CalibrateStepEvaluate
          ELSE CalibrateStepCollect(s)

\* bool BMM150class::calibrateStep(bool firstStep); s is what the sensor
\* delivers if the step reads it
calibrateStep(firstStep, s) ==
  IF firstStep
  THEN CalibrateStepFirst
  ELSE /\ elapsedTime' = millis - bmm_calibrationStartTime
       /\ IF elapsedTime' >= CalibrationWindowMs
          THEN CalibrateStepEvaluate
          ELSE CalibrateStepCollect(s)

----------------------------------------------------------------------------
(* The blocking loops that drive a session *)

\* BMM150class::calibrate(), up to the loop
CalibrateEnter ==
  /\ pc = "idle"
  /\ millis % SessionSlotMs = 0
  /\ calibrateStep(TRUE, <<0, 0, 0>>)
  /\ pc' = "calibrate"
  /\ lastOp' = "calibrateStep(true)"
  /\ UNCHANGED <<millis, imu_isCalibrated, mgrVars, fusVars>>

\* mutant: the step runs before the cancel input is looked at
CalibrateIterate_CancelAfterStep(cancel, s, d) ==
  /\ pc = "calibrate"
  /\ millis + d <= MaxMillis
  /\ calibrateStep(FALSE, s)
  /\ millis' = millis + d
  /\ pc' = IF cancel \/ stepResult' = "Done" THEN "idle" ELSE "calibrate"
  /\ lastOp' = IF cancel THEN "cancel" ELSE "calibrateStep(false)"
  /\ UNCHANGED <<imu_isCalibrated, mgrVars, fusVars>>

\* one iteration of the loop of BMM150class::calibrate()
CalibrateIterate(cancel, s, d) ==
  /\ pc = "calibrate"
  /\ IF cancel
     THEN /\ pc' = "idle"
          /\ lastOp' = "cancel"
          /\ UNCHANGED <<millis, magVars, mgrVars, fusVars>>
     ELSE /\ millis + d <= MaxMillis
          /\ calibrateStep(FALSE, s)
          /\ millis' = millis + d
          /\ pc' = IF stepResult' = "Done" THEN "idle" ELSE "calibrate"
          /\ lastOp' = "calibrateStep(false)"
          /\ UNCHANGED <<imu_isCalibrated, mgrVars, fusVars>>

\* IMUFusion::calibrateMagnetometer(), up to the loop
CalibrateMagnetometerEnter ==
  /\ pc = "idle"
  /\ millis % SessionSlotMs = 0
  /\ calibrateStep(TRUE, <<0, 0, 0>>)
  /\ pc' = "calibrateMagnetometer"
  /\ lastOp' = "calibrateStep(true)"
  /\ UNCHANGED <<millis, imu_isCalibrated, mgrVars, fusVars>>

\* one iteration of the loop of IMUFusion::calibrateMagnetometer(), with the
\* statements after the loop when it was the last
CalibrateMagnetometerIterate(cancel, s, d) ==
  /\ pc = "calibrateMagnetometer"
  /\ IF cancel
     THEN /\ pc' = "idle"
          /\ lastOp' = "cancel"
          /\ UNCHANGED <<millis, magVars, mgrVars, fusVars>>
     ELSE /\ millis + d <= MaxMillis
          /\ calibrateStep(FALSE, s)
          /\ millis' = millis + d
          /\ pc' = IF stepResult' = "Done" THEN "idle" ELSE "calibrateMagnetometer"
          /\ imu_isCalibrated' = IF stepResult' = "Done" THEN TRUE ELSE imu_isCalibrated
          /\ lastOp' = "calibrateStep(false)"
          /\ UNCHANGED <<mgrVars, fusVars>>

\* the main loop runs on until the next instant at which it may request a
\* calibration; it does so between sessions and before it finishes one
MainLoopIdle ==
  /\ pc = "idle"
  /\ calibrationState \in {"CAL_IDLE", "CAL_MAG_COMPLETE", "CAL_COMPLETE"}
  /\ millis' = ((millis \div SessionSlotMs) + 1) * SessionSlotMs
  /\ millis' <= MaxMillis
  /\ lastOp' = "loop"
  /\ UNCHANGED <<magVars, mgrVars, fusVars, pc>>

----------------------------------------------------------------------------
(* CalibrationManager *)

requiredSamples == 100

\* initial value of the running minima; the maxima start at its negation
MinMaxSentinel == 1000

\* samples read from the accelerometer (g) and from the calibrated
\* magnetometer output while the manager collects
AccelSamples == { <<0, 0, 1>> }
MagSamples == { <<0, 0, 0>>, <<1200, 1200, 1200>> }

Zero3 == [i \in Axes |-> Rat(0, 1)]
One3 == [i \in Axes |-> Rat(1, 1)]

\* Preferences: a store maps the keys it holds to their values
isKey(store, k) == k \in DOMAIN store
Get(store, k, default) == IF k \in DOMAIN store THEN store[k] ELSE default
Put(store, k, v) == [x \in DOMAIN store \cup {k} |-> IF x = k THEN v ELSE store[x]]

RECURSIVE PutAll(_, _)
PutAll(store, kvs) ==
  IF kvs = << >> THEN store
  ELSE PutAll(Put(store, Head(kvs)[1], Head(kvs)[2]), Tail(kvs))

EmptyStore == [k \in {} |-> FALSE]

\* the _calibrationData that resetCalibration() leaves
ResetData ==
  [accelOffset |-> Zero3, accelScale |-> One3, accelCalibrated |-> FALSE,
   magOffset |-> Zero3, magScale |-> One3, magCalibrated |-> FALSE,
   timestamp |-> 0]

\* CalibrationManager::isCalibrated()
IsCalibratedData(data) == data.accelCalibrated /\ data.magCalibrated

\* loadCalibrationData() past its validity checks: the fields it reads
LoadedFields(store, data) ==
    LET ac == Get(store, "accel_cal", FALSE)
        mc == Get(store, "mag_cal", FALSE)
        d1 == [data EXCEPT !.accelCalibrated = ac]
        d2 == IF ac
              THEN [d1 EXCEPT
                      !.accelOffset = <<Get(store, "accel_ox", Rat(0, 1)),
                                        Get(store, "accel_oy", Rat(0, 1)),
                                        Get(store, "accel_oz", Rat(0, 1))>>,
                      !.accelScale = <<Get(store, "accel_sx", Rat(1, 1)),
                                       Get(store, "accel_sy", Rat(1, 1)),
                                       Get(store, "accel_sz", Rat(1, 1))>>]
              ELSE d1
        d3 == [d2 EXCEPT !.magCalibrated = mc]
        d4 == IF mc
              THEN [d3 EXCEPT
                      !.magOffset = <<Get(store, "mag_ox", Rat(0, 1)),
                                      Get(store, "mag_oy", Rat(0, 1)),
                                      Get(store, "mag_oz", Rat(0, 1))>>,
                      !.magScale = <<Get(store, "mag_sx", Rat(1, 1)),
                                     Get(store, "mag_sy", Rat(1, 1)),
                                     Get(store, "mag_sz", Rat(1, 1))>>]
              ELSE d3
    IN  [data |-> [d4 EXCEPT !.timestamp = Get(store, "cal_time", 0)],
         ok |-> TRUE]

\* mutant: the value of the validity flag is not looked at
LoadedData_AnyValidity(store, data) ==
  IF ~isKey(store, "cal_valid") THEN [data |-> data, ok |-> FALSE]
  ELSE LoadedFields(store, data)

\* the data loadCalibrationData() leaves, and its return value
LoadedData(store, data) ==
  IF ~isKey(store, "cal_valid") THEN [data |-> data, ok |-> FALSE]
  ELSE IF ~Get(store, "cal_valid", FALSE) THEN [data |-> data, ok |-> FALSE]
  ELSE LoadedFields(store, data)

\* mutant: the timestamp is not saved
SavedStore_NoTimestamp(store, data) ==
  LET s1 == PutAll(store, << <<"cal_valid", TRUE>>,
                             <<"accel_cal", data.accelCalibrated>> >>)
      s2 == IF data.accelCalibrated
            THEN PutAll(s1, << <<"accel_ox", data.accelOffset[1]>>,
                               <<"accel_oy", data.accelOffset[2]>>,
                               <<"accel_oz", data.accelOffset[3]>>,
                               <<"accel_sx", data.accelScale[1]>>,
                               <<"accel_sy", data.accelScale[2]>>,
                               <<"accel_sz", data.accelScale[3]>> >>)
            ELSE s1
      s3 == Put(s2, "mag_cal", data.magCalibrated)
      s4 == IF data.magCalibrated
            THEN PutAll(s3, << <<"mag_ox", data.magOffset[1]>>,
                               <<"mag_oy", data.magOffset[2]>>,
                               <<"mag_oz", data.magOffset[3]>>,
                               <<"mag_sx", data.magScale[1]>>,
                               <<"mag_sy", data.magScale[2]>>,
                               <<"mag_sz", data.magScale[3]>> >>)
            ELSE s3
  IN  s4

\* the store saveCalibrationData() leaves (when isCalibrated() holds)
SavedStore(store, data) ==
  LET s1 == PutAll(store, << <<"cal_valid", TRUE>>,
                             <<"accel_cal", data.accelCalibrated>> >>)
      s2 == IF data.accelCalibrated
            THEN PutAll(s1, << <<"accel_ox", data.accelOffset[1]>>,
                               <<"accel_oy", data.accelOffset[2]>>,
                               <<"accel_oz", data.accelOffset[3]>>,
                               <<"accel_sx", data.accelScale[1]>>,
                               <<"accel_sy", data.accelScale[2]>>,
                               <<"accel_sz", data.accelScale[3]>> >>)
            ELSE s1
      s3 == Put(s2, "mag_cal", data.magCalibrated)
      s4 == IF data.magCalibrated
            THEN PutAll(s3, << <<"mag_ox", data.magOffset[1]>>,
                               <<"mag_oy", data.magOffset[2]>>,
                               <<"mag_oz", data.magOffset[3]>>,
                               <<"mag_sx", data.magScale[1]>>,
                               <<"mag_sy", data.magScale[2]>>,
                               <<"mag_sz", data.magScale[3]>> >>)
            ELSE s3
  IN  Put(s4, "cal_time", data.timestamp)

\* offsets of calculateAccelCalibration / calculateMagCalibration
CentreOf(mn, mx) == [i \in Axes |-> Rat(mn[i] + mx[i], 2)]

\* scale factors of calculateAccelCalibration / calculateMagCalibration:
\* 2.0 / range if range > 0.01, else 1.0 (the samples are whole numbers)
TwoOverRange(mn, mx) ==
  [i \in Axes |-> IF mx[i] - mn[i] >= 1 THEN Rat(2, mx[i] - mn[i]) ELSE Rat(1, 1)]

MinOf(mn, s) == [i \in Axes |-> Min2(mn[i], s[i])]
MaxOf(mx, s) == [i \in Axes |-> Max2(mx[i], s[i])]

\* no session is in progress: the calls below come from the menu, which is
\* not shown while a session runs
BetweenSessions == calibrationState \in {"CAL_IDLE", "CAL_COMPLETE"}

\* CalibrationManager::begin()
Begin ==
  /\ phase = "constructed"
  /\ calibrationData' = LoadedData(preferences, calibrationData).data
  /\ phase' = "begun"
  /\ UNCHANGED <<millis, magVars, fusVars, pc, lastOp, calibrationState,
                 calibrationStartTime, lastUpdateTime, accelMin, accelMax,
                 magMin, magMax, sampleCount, preferences, overwritten>>

\* CalibrationManager::startCalibration(bool accel, bool mag)
StartCalibration(accel, mag) ==
  /\ phase # "constructed"
  /\ calibrationData' = ResetData
  /\ IF accel
     THEN /\ calibrationState' = "CAL_ACCEL_START"
          /\ accelMin' = [i \in Axes |-> MinMaxSentinel]
          /\ accelMax' = [i \in Axes |-> -MinMaxSentinel]
          /\ UNCHANGED <<magMin, magMax>>
     ELSE IF mag
     THEN /\ calibrationState' = "CAL_MAG_START"
          /\ magMin' = [i \in Axes |-> MinMaxSentinel]
          /\ magMax' = [i \in Axes |-> -MinMaxSentinel]
          /\ UNCHANGED <<accelMin, accelMax>>
     ELSE /\ calibrationState' = "CAL_IDLE"
          /\ UNCHANGED <<accelMin, accelMax, magMin, magMax>>
  /\ IF accel \/ mag
     THEN /\ calibrationStartTime' = millis
          /\ lastUpdateTime' = millis
          /\ sampleCount' = 0
          /\ overwritten' = (calibrationData' # calibrationData)
     ELSE /\ overwritten' = FALSE
          /\ UNCHANGED <<calibrationStartTime, lastUpdateTime, sampleCount>>
  /\ phase' = "running"
  /\ UNCHANGED <<millis, magVars, fusVars, pc, lastOp, preferences>>

\* mutant: the sample count is not reset when the accelerometer stage ends
UpdateActive_CountKept(a, m) ==
  CASE calibrationState = "CAL_ACCEL_START" ->
         /\ calibrationState' = "CAL_ACCEL_COLLECT"
         /\ UNCHANGED <<calibrationData, accelMin, accelMax, magMin, magMax,
                        sampleCount>>
    [] calibrationState = "CAL_ACCEL_COLLECT" ->
         /\ accelMin' = MinOf(accelMin, a)
         /\ accelMax' = MaxOf(accelMax, a)
         /\ IF sampleCount + 1 >= requiredSamples
            THEN /\ calibrationData' =
                      [calibrationData EXCEPT
                         !.accelOffset = CentreOf(accelMin', accelMax'),
                         !.accelScale = TwoOverRange(accelMin', accelMax'),
                         !.accelCalibrated = TRUE]
                 /\ calibrationState' = "CAL_ACCEL_COMPLETE"
                 /\ sampleCount' = sampleCount + 1
            ELSE /\ sampleCount' = sampleCount + 1
                 /\ UNCHANGED <<calibrationData, calibrationState>>
         /\ UNCHANGED <<magMin, magMax>>
    [] calibrationState = "CAL_ACCEL_COMPLETE" ->
         /\ calibrationState' = "CAL_MAG_START"
         /\ magMin' = [i \in Axes |-> MinMaxSentinel]
         /\ magMax' = [i \in Axes |-> -MinMaxSentinel]
         /\ UNCHANGED <<calibrationData, accelMin, accelMax, sampleCount>>
    [] calibrationState = "CAL_MAG_START" ->
         /\ calibrationState' = "CAL_MAG_COLLECT"
         /\ UNCHANGED <<calibrationData, accelMin, accelMax, magMin, magMax,
                        sampleCount>>
    [] calibrationState = "CAL_MAG_COLLECT" ->
         /\ magMin' = MinOf(magMin, m)
         /\ magMax' = MaxOf(magMax, m)
         /\ sampleCount' = sampleCount + 1
         /\ IF sampleCount' >= requiredSamples
            THEN /\ calibrationData' =
                      [calibrationData EXCEPT
                         !.magOffset = CentreOf(magMin', magMax'),
                         !.magScale = TwoOverRange(magMin', magMax'),
                         !.magCalibrated = TRUE]
                 /\ calibrationState' = "CAL_MAG_COMPLETE"
            ELSE UNCHANGED <<calibrationData, calibrationState>>
         /\ UNCHANGED <<accelMin, accelMax>>
    [] calibrationState = "CAL_MAG_COMPLETE" ->
         /\ calibrationState' = "CAL_COMPLETE"
         /\ calibrationData' = [calibrationData EXCEPT !.timestamp = millis]
         /\ UNCHANGED <<accelMin, accelMax, magMin, magMax, sampleCount>>

\* the switch of updateCalibration() on a state in which calibration is active
UpdateActive(a, m) ==
  CASE calibrationState = "CAL_ACCEL_START" ->
         /\ calibrationState' = "CAL_ACCEL_COLLECT"
         /\ UNCHANGED <<calibrationData, accelMin, accelMax, magMin, magMax,
                        sampleCount>>
    [] calibrationState = "CAL_ACCEL_COLLECT" ->
         /\ accelMin' = MinOf(accelMin, a)
         /\ accelMax' = MaxOf(accelMax, a)
         /\ IF sampleCount + 1 >= requiredSamples
            THEN /\ calibrationData' =
                      [calibrationData EXCEPT
                         !.accelOffset = CentreOf(accelMin', accelMax'),
                         !.accelScale = TwoOverRange(accelMin', accelMax'),
                         !.accelCalibrated = TRUE]
                 /\ calibrationState' = "CAL_ACCEL_COMPLETE"
                 /\ sampleCount' = 0
            ELSE /\ sampleCount' = sampleCount + 1
                 /\ UNCHANGED <<calibrationData, calibrationState>>
         /\ UNCHANGED <<magMin, magMax>>
    [] calibrationState = "CAL_ACCEL_COMPLETE" ->
         /\ calibrationState' = "CAL_MAG_START"
         /\ magMin' = [i \in Axes |-> MinMaxSentinel]
         /\ magMax' = [i \in Axes |-> -MinMaxSentinel]
         /\ UNCHANGED <<calibrationData, accelMin, accelMax, sampleCount>>
    [] calibrationState = "CAL_MAG_START" ->
         /\ calibrationState' = "CAL_MAG_COLLECT"
         /\ UNCHANGED <<calibrationData, accelMin, accelMax, magMin, magMax,
                        sampleCount>>
    [] calibrationState = "CAL_MAG_COLLECT" ->
         /\ magMin' = MinOf(magMin, m)
         /\ magMax' = MaxOf(magMax, m)
         /\ sampleCount' = sampleCount + 1
         /\ IF sampleCount' >= requiredSamples
            THEN /\ calibrationData' =
                      [calibrationData EXCEPT
                         !.magOffset = CentreOf(magMin', magMax'),
                         !.magScale = TwoOverRange(magMin', magMax'),
                         !.magCalibrated = TRUE]
                 /\ calibrationState' = "CAL_MAG_COMPLETE"
            ELSE UNCHANGED <<calibrationData, calibrationState>>
         /\ UNCHANGED <<accelMin, accelMax>>
    [] calibrationState = "CAL_MAG_COMPLETE" ->
         /\ calibrationState' = "CAL_COMPLETE"
         /\ calibrationData' = [calibrationData EXCEPT !.timestamp = millis]
         /\ UNCHANGED <<accelMin, accelMax, magMin, magMax, sampleCount>>

\* CalibrationManager::isCalibrating()
isCalibrating == calibrationState # "CAL_IDLE" /\ calibrationState # "CAL_COMPLETE"

\* CalibrationManager::getCalibrationStatus(): stage, progress, isComplete
StatusStage ==
  CASE calibrationState \in {"CAL_IDLE", "CAL_ACCEL_START", "CAL_ACCEL_COLLECT"} -> 0
    [] calibrationState \in {"CAL_ACCEL_COMPLETE", "CAL_MAG_START", "CAL_MAG_COLLECT"} -> 1
    [] calibrationState = "CAL_MAG_COMPLETE" -> 2
    [] calibrationState = "CAL_COMPLETE" -> 3

StatusProgress ==
  CASE calibrationState \in {"CAL_IDLE", "CAL_ACCEL_START", "CAL_ACCEL_COMPLETE",
                             "CAL_MAG_START"} -> Rat(0, 1)
    [] calibrationState \in {"CAL_ACCEL_COLLECT", "CAL_MAG_COLLECT"} ->
         Rat(sampleCount, requiredSamples)
    [] calibrationState \in {"CAL_MAG_COMPLETE", "CAL_COMPLETE"} -> Rat(1, 1)

StatusIsComplete == calibrationState = "CAL_COMPLETE"

\* CalibrationManager::updateCalibration(); a and m are what the sensors
\* deliver if the step collects a sample
UpdateCalibration(a, m) ==
  /\ phase # "constructed"
  /\ IF calibrationState = "CAL_IDLE" \/ calibrationState = "CAL_COMPLETE"
     THEN UNCHANGED <<calibrationState, calibrationData, accelMin, accelMax,
                      magMin, magMax, sampleCount, lastUpdateTime, overwritten>>
     ELSE /\ UpdateActive(a, m)
          /\ lastUpdateTime' = millis
          /\ overwritten' = IF calibrationState' = "CAL_COMPLETE" THEN FALSE
                            ELSE overwritten \/ calibrationData' # calibrationData
  /\ phase' = "running"
  /\ lastOp' = "updateCalibration"
  /\ UNCHANGED <<millis, magVars, fusVars, pc, preferences,
                 calibrationStartTime>>

\* mutant: cancel returns to CAL_IDLE from every state
CancelCalibration_FromAnyState ==
  /\ phase # "constructed"
  /\ calibrationState' = "CAL_IDLE"
  /\ overwritten' = FALSE
  /\ phase' = "running"
  /\ lastOp' = "cancelCalibration"
  /\ UNCHANGED <<millis, magVars, fusVars, pc, calibrationStartTime,
                 lastUpdateTime, calibrationData, accelMin, accelMax, magMin,
                 magMax, sampleCount, preferences>>

\* CalibrationManager::cancelCalibration()
CancelCalibration ==
  /\ phase # "constructed"
  /\ IF calibrationState # "CAL_IDLE" /\ calibrationState # "CAL_COMPLETE"
     THEN /\ calibrationState' = "CAL_IDLE"
          /\ overwritten' = FALSE
     ELSE UNCHANGED <<calibrationState, overwritten>>
  /\ phase' = "running"
  /\ lastOp' = "cancelCalibration"
  /\ UNCHANGED <<millis, magVars, fusVars, pc, calibrationStartTime,
                 lastUpdateTime, calibrationData, accelMin, accelMax, magMin,
                 magMax, sampleCount, preferences>>

\* CalibrationManager::loadCalibrationData()
LoadCalibrationData ==
  /\ phase # "constructed"
  /\ BetweenSessions
  /\ calibrationData' = LoadedData(preferences, calibrationData).data
  /\ phase' = "running"
  /\ UNCHANGED <<millis, magVars, fusVars, pc, lastOp, calibrationState,
                 calibrationStartTime, lastUpdateTime, accelMin, accelMax,
                 magMin, magMax, sampleCount, preferences, overwritten>>

\* CalibrationManager::saveCalibrationData()
SaveCalibrationData ==
  /\ phase # "constructed"
  /\ BetweenSessions
  /\ preferences' = IF ~IsCalibratedData(calibrationData)
                    THEN preferences
                    ELSE SavedStore(preferences, calibrationData)
  /\ phase' = "running"
  /\ UNCHANGED <<millis, magVars, fusVars, pc, lastOp, calibrationState,
                 calibrationStartTime, lastUpdateTime, calibrationData,
                 accelMin, accelMax, magMin, magMax, sampleCount, overwritten>>

\* CalibrationManager::resetCalibration()
ResetCalibration ==
  /\ phase # "constructed"
  /\ BetweenSessions
  /\ calibrationData' = ResetData
  /\ phase' = "running"
  /\ UNCHANGED <<millis, magVars, fusVars, pc, lastOp, calibrationState,
                 calibrationStartTime, lastUpdateTime, accelMin, accelMax,
                 magMin, magMax, sampleCount, preferences, overwritten>>

-----------------------------------------------------------------------------
(* Single-precision values of the orientation filter *)

\* A float is an exact fraction <<n, d>> in lowest terms; <<0, 0>> is NaN.
\* Every sum and product below is exact for the inputs of this model, so the
\* float result is the fraction itself; only overflow needs its own rule.
NaN == <<0, 0>>

IsNaN(x) == x[2] = 0

RInt(k) == <<k, 1>>

LCM(a, b) == (a \div GCD(a, b)) * b

RNeg(a) == IF IsNaN(a) THEN NaN ELSE <<-a[1], a[2]>>

RAdd(a, b) ==
  IF IsNaN(a) \/ IsNaN(b) THEN NaN
  ELSE IF a[1] = 0 THEN b
  ELSE IF b[1] = 0 THEN a
  ELSE LET l == LCM(a[2], b[2])
       IN  Rat(a[1] * (l \div a[2]) + b[1] * (l \div b[2]), l)

RSub(a, b) == RAdd(a, RNeg(b))

RMul(a, b) ==
  IF IsNaN(a) \/ IsNaN(b) THEN NaN
  ELSE IF a[1] = 0 \/ b[1] = 0 THEN <<0, 1>>
  ELSE LET g1 == GCD(Abs(a[1]), b[2])
           g2 == GCD(Abs(b[1]), a[2])
       IN  Rat((a[1] \div g1) * (b[1] \div g2), (a[2] \div g2) * (b[2] \div g1))

\* a / b for b other than zero and NaN
RDiv(a, b) == RMul(a, IF b[1] < 0 THEN <<-b[2], -b[1]>> ELSE <<b[2], b[1]>>)

\* comparisons are false as soon as one side is NaN
RLt(a, b) ==
  /\ ~IsNaN(a)
  /\ ~IsNaN(b)
  /\ IF a[2] = b[2] THEN a[1] < b[1]
     ELSE LET l == LCM(a[2], b[2]) IN a[1] * (l \div a[2]) < b[1] * (l \div b[2])

RLe(a, b) == ~IsNaN(a) /\ ~IsNaN(b) /\ ~RLt(b, a)

\* largest k in lo..hi with k * k <= n
RECURSIVE ISqrtIn(_, _, _)
ISqrtIn(n, lo, hi) ==
  IF lo = hi THEN lo
  ELSE LET mid == (lo + hi + 1) \div 2
       IN  IF mid * mid <= n THEN ISqrtIn(n, mid, hi) ELSE ISqrtIn(n, lo, mid - 1)

ISqrt(n) == ISqrtIn(n, 0, Min2(n, 46340))

\* the fraction has a square root that is a fraction
HasRatSqrt(x) ==
  /\ ~IsNaN(x)
  /\ x[1] >= 0
  /\ ISqrt(x[1]) * ISqrt(x[1]) = x[1]
  /\ ISqrt(x[2]) * ISqrt(x[2]) = x[2]

RatSqrt(x) == <<ISqrt(x[1]), ISqrt(x[2])>>

RECURSIVE Pow2(_)
Pow2(k) == IF k = 0 THEN 1 ELSE 2 * Pow2(k - 1)

\* single precision has no finite value of magnitude 2^128 or more
FloatMaxExp == 128

\* the float x * 2^e is infinite (x a fraction below 2^20 in magnitude)
Overflows(x, e) ==
  /\ x[1] # 0
  /\ FloatMaxExp - e <= 20
  /\ Abs(x[1]) >= x[2] * Pow2(FloatMaxExp - e)

\* the square of the float x * 2^e is infinite (x a fraction above 2^-20
\* in magnitude, e >= 64)
SquareOverflows(x, e) ==
  /\ x[1] # 0
  /\ 2 * e >= FloatMaxExp
  /\ IF 2 * e - FloatMaxExp > 40
     THEN TRUE
     ELSE Abs(x[1]) * Pow2((2 * e - FloatMaxExp) \div 2) >= x[2]

\* asin, atan2, cos, sin on the arguments the model produces, in degrees
AsinDeg(x) ==
  CASE IsNaN(x) -> NaN
    [] x = RInt(0) -> RInt(0)
    [] x = RInt(1) -> RInt(90)
    [] x = RInt(-1) -> RInt(-90)

Atan2Deg(y, x) ==
  CASE IsNaN(y) \/ IsNaN(x) -> NaN
    [] y[1] = 0 /\ x[1] >= 0 -> RInt(0)
    [] y[1] = 0 /\ x[1] < 0 -> RInt(180)
    [] y[1] > 0 /\ x[1] = 0 -> RInt(90)
    [] y[1] < 0 /\ x[1] = 0 -> RInt(-90)

CosDeg(a) ==
  CASE IsNaN(a) -> NaN
    [] a = RInt(0) -> RInt(1)

SinDeg(a) ==
  CASE IsNaN(a) -> NaN
    [] a = RInt(0) -> RInt(0)

\* while (y < 0) y += 360; while (y >= 360) y -= 360
RECURSIVE Wrap360(_)
Wrap360(y) ==
  IF RLt(y, RInt(0)) THEN Wrap360(RAdd(y, RInt(360)))
  ELSE IF RLe(RInt(360), y) THEN Wrap360(RSub(y, RInt(360)))
  ELSE y

-----------------------------------------------------------------------------
(* BMI270, BMM150class::readMagnetometer, IMUFusion::update *)

\* bound on the number of update() calls of a run
MaxTicks == 2

Quat == 1..4                    \* _q0 .. _q3

acc_scale == Rat(2, 32768)      \* g per count, +/-2 g range
offset == RInt(0)               \* offset_x, offset_y, offset_z: never changed
alpha == Rat(49, 50)            \* _alpha = 0.98f

\* a step of s * 2^e seconds
Dt(n, d, e) == [s |-> Rat(n, d), e |-> e]

FallbackDeltaTime == Dt(1, 100, 0)

\* the deltaTime arguments of update(): none given, 1 s, 2 s, 2^127 s
DeltaTimes == {Dt(0, 1, 0), Dt(1, 1, 0), Dt(2, 1, 0), Dt(1, 1, 127)}

\* loop time between two calls of update(): a normal pass and a stall
FusionDelays == {1000, 1500}

\* gyro rates in rad/s (gyr * DEG_TO_RAD), about the z axis: at rest,
\* 86 deg/s and 229 deg/s
GyroSamples ==
  { <<RInt(0), RInt(0), RInt(0)>>,
    <<RInt(0), RInt(0), Rat(3, 2)>>,
    <<RInt(0), RInt(0), RInt(4)>> }

\* raw accelerometer counts: 1 g on z, and the all-zero sample
AccelRaw == { <<0, 0, 16384>>, <<0, 0, 0>> }

\* raw magnetometer counts: no field, field along +y, weak field along -y
MagRaw == { <<0, 0, 0>>, <<0, 900, 0>>, <<0, -90, 0>> }

\* calibration vectors handed to setCalibrationData: <<hard iron, scale>>
ManualCalibrations ==
  { <<Zero3, <<Rat(1, 2), Rat(1, 2), Rat(1, 2)>> >>,
    <<Zero3, <<RInt(0), RInt(0), RInt(0)>> >> }

\* BMI270::readAcceleration: counts to g
ReadAcceleration(raw) ==
  <<RMul(RInt(raw[1]), acc_scale), RMul(RInt(raw[2]), acc_scale),
    RMul(RInt(raw[3]), acc_scale)>>

\* BMM150class::readMagnetometer: calibration, identity soft-iron matrix,
\* low-pass filter against the previous output
LowPass(cal, prev) == RAdd(RMul(cal, Rat(9, 10)), RMul(prev, Rat(1, 10)))

Calibrated(raw, hi, sc) == RSub(RMul(RSub(RInt(raw), offset), sc), hi)

ReadMagnetometer(raw, prev, hi, sc) ==
  <<LowPass(Calibrated(raw[1], hi[1], sc[1]), prev[1]),
    LowPass(Calibrated(raw[2], hi[2], sc[2]), prev[2]),
    LowPass(Calibrated(raw[3], hi[3], sc[3]), prev[3])>>

\* the step update() integrates with, and what it leaves in _lastUpdate
UsedDeltaTime(dt, now, last) ==
  IF dt.s[1] <= 0
  THEN LET measured == Rat(now - last, 1000)
       IN  IF measured[1] <= 0 \/ RLt(RInt(1), measured)
           THEN FallbackDeltaTime
           ELSE [s |-> measured, e |-> 0]
  ELSE dt

UsedLastUpdate(dt, now, last) == IF dt.s[1] <= 0 THEN now ELSE last

Half(x) == RMul(Rat(1, 2), x)

QDot(qv, g) ==
  << Half(RSub(RSub(RMul(RNeg(qv[2]), g[1]), RMul(qv[3], g[2])), RMul(qv[4], g[3]))),
     Half(RSub(RAdd(RMul(qv[1], g[1]), RMul(qv[3], g[3])), RMul(qv[4], g[2]))),
     Half(RAdd(RSub(RMul(qv[1], g[2]), RMul(qv[2], g[3])), RMul(qv[4], g[1]))),
     Half(RSub(RAdd(RMul(qv[1], g[3]), RMul(qv[2], g[2])), RMul(qv[3], g[1]))) >>

Scaled4(v, k) == <<RMul(v[1], k), RMul(v[2], k), RMul(v[3], k), RMul(v[4], k)>>

Sum4(v, w) == <<RAdd(v[1], w[1]), RAdd(v[2], w[2]), RAdd(v[3], w[3]), RAdd(v[4], w[4])>>

\* q_dot * deltaTime, to be read times 2^dt.e
Increment(qv, g, dt) == Scaled4(QDot(qv, g), dt.s)

NormSq(v) ==
  RAdd(RAdd(RMul(v[1], v[1]), RMul(v[2], v[2])),
       RAdd(RMul(v[3], v[3]), RMul(v[4], v[4])))

DividedBy(v, norm) ==
  <<RDiv(v[1], norm), RDiv(v[2], norm), RDiv(v[3], norm), RDiv(v[4], norm)>>

\* IMUFusion::normalizeQuaternion: a NaN norm and a zero norm both fail
\* norm > 0.0f and leave the quaternion as it is
normalizeQuaternion(v) ==
  IF (\E i \in Quat : IsNaN(v[i])) \/ NormSq(v) = RInt(0)
  THEN v
  ELSE DividedBy(v, RatSqrt(NormSq(v)))

\* a component x * 2^e divided by an infinite norm
OverInf(x, e) == IF Overflows(x, e) THEN NaN ELSE RInt(0)

\* _q += inc * 2^e; normalizeQuaternion()
Advanced(qv, inc, e) ==
  IF e = 0 \/ \A i \in Quat : inc[i] = RInt(0)
  THEN normalizeQuaternion(Sum4(qv, inc))
  ELSE IF \E i \in Quat : IsNaN(qv[i])
  THEN <<NaN, NaN, NaN, NaN>>
  ELSE \* a component lies beyond 2^64, the norm is infinite: an infinite
       \* component becomes inf / inf, a finite one becomes x / inf
       <<OverInf(inc[1], e), OverInf(inc[2], e), OverInf(inc[3], e), OverInf(inc[4], e)>>

\* _q += q_dot * deltaTime; normalizeQuaternion()
Integrated(qv, g, dt) == Advanced(qv, Increment(qv, g, dt), dt.e)

\* the cases in which the fractions above are the floats of the code
AdvanceExact(qv, inc, e) ==
  IF e = 0 \/ \A i \in Quat : inc[i] = RInt(0)
  THEN \/ \E i \in Quat : IsNaN(qv[i])
       \/ HasRatSqrt(NormSq(Sum4(qv, inc)))
  ELSE \/ \E i \in Quat : IsNaN(qv[i])
       \/ \E i \in Quat : Overflows(inc[i], e) \/ SquareOverflows(inc[i], e)

IntegrationExact(qv, g, dt) == AdvanceExact(qv, Increment(qv, g, dt), dt.e)

\* IMUFusion::updateEulerAngles: sets _roll and _pitch; the yaw it computes
\* is a local that is dropped
RollOf(qv) ==
  Atan2Deg(RMul(RInt(2), RAdd(RMul(qv[1], qv[2]), RMul(qv[3], qv[4]))),
           RSub(RInt(1), RMul(RInt(2), RAdd(RMul(qv[2], qv[2]), RMul(qv[3], qv[3])))))

PitchOf(qv) ==
  AsinDeg(RMul(RInt(2), RSub(RMul(qv[1], qv[3]), RMul(qv[4], qv[2]))))

Scaled3(v, k) == <<RMul(v[1], k), RMul(v[2], k), RMul(v[3], k)>>

\* the accelerometer vector after "if (normAcc > 0.0f) a /= normAcc"
NormalizedBy(a, n2) ==
  IF n2 = RInt(0) THEN a ELSE Scaled3(a, RDiv(RInt(1), RatSqrt(n2)))

NormalizedAccel(a) ==
  NormalizedBy(a, RAdd(RAdd(RMul(a[1], a[1]), RMul(a[2], a[2])), RMul(a[3], a[3])))

AccelPitchOf(n) == AsinDeg(RNeg(n[1]))
AccelRollOf(n) == Atan2Deg(n[2], n[3])

AccelPitch(a) == AccelPitchOf(NormalizedAccel(a))
AccelRoll(a) == AccelRollOf(NormalizedAccel(a))

\* _alpha * angle + (1 - _alpha) * accelAngle
Blend(angle, accelAngle) ==
  RAdd(RMul(alpha, angle), RMul(RSub(RInt(1), alpha), accelAngle))

NonNegativeHeading(heading) ==
  IF RLt(heading, RInt(0)) THEN RAdd(heading, RInt(360)) ELSE heading

\* BMM150class::calculateTiltCompensatedHeading
calculateTiltCompensatedHeading(m, p, r) ==
  NonNegativeHeading(
    Atan2Deg(RSub(RAdd(RMul(RMul(m[1], SinDeg(r)), SinDeg(p)),      \* mag_y_comp
                       RMul(m[2], CosDeg(r))),
                  RMul(RMul(m[3], SinDeg(r)), CosDeg(p))),
             RAdd(RMul(m[1], CosDeg(p)), RMul(m[3], SinDeg(p)))))   \* mag_x_comp

\* yawDiff brought into -180..180 by the two ifs
YawDiffAbove(d) == IF RLt(RInt(180), d) THEN RSub(d, RInt(360)) ELSE d
YawDiffBelow(d) == IF RLt(d, RInt(-180)) THEN RAdd(d, RInt(360)) ELSE d

\* mutant: yawDiff with the first if left out
YawDiff_NoWrapAbove(yawv, heading) == YawDiffBelow(RSub(heading, yawv))

\* yawDiff after the two ifs
YawDiff(yawv, heading) == YawDiffBelow(YawDiffAbove(RSub(heading, yawv)))

\* the complementary filter on yaw
BlendedYaw(yawv, heading) ==
  Wrap360(RAdd(yawv,
               RMul(RMul(YawDiff(yawv, heading), RSub(RInt(1), alpha)),
                    Rat(1, 2))))

\* the tail of update(): Euler angles, complementary filters
YawFiltered(q1, yawv, m, p, r, newLast, used, heading) ==
  [q |-> q1,
   pitch |-> p,
   roll |-> r,
   yaw |-> BlendedYaw(yawv, heading),
   magHeading |-> heading,
   yawDiff |-> YawDiff(yawv, heading),
   mag |-> m,
   lastUpdate |-> newLast,
   deltaTime |-> used]

Filtered(q1, yawv, a, m, p, r, newLast, used) ==
  YawFiltered(q1, yawv, m, p, r, newLast, used,
              calculateTiltCompensatedHeading(m, p, r))

AfterIntegration(qv, yawv, a, m, newLast, used, q1) ==
  Filtered(q1, yawv, a, m,
           Blend(PitchOf(q1), AccelPitch(a)), Blend(RollOf(q1), AccelRoll(a)),
           newLast, used)

Stepped(qv, yawv, a, m, newLast, used, g) ==
  AfterIntegration(qv, yawv, a, m, newLast, used, Integrated(qv, g, used))

\* IMUFusion::update(deltaTime) as a function of the filter state, the clock
\* and the three sensor readings
UpdateResult(qv, yawv, magv, last, hi, sc, dt, now, g, accRaw, magRaw) ==
  Stepped(qv, yawv, ReadAcceleration(accRaw), ReadMagnetometer(magRaw, magv, hi, sc),
          UsedLastUpdate(dt, now, last), UsedDeltaTime(dt, now, last), g)

\* IMUFusion::getYaw with _magDeclination = decl
getYaw(yawv, decl) == Wrap360(RAdd(yawv, decl))

\* update(dt) with the gyro reading g.  update() reads the accelerometer and
\* the magnetometer itself; a read that returns too few bytes leaves the
\* buffer uninitialised, so the counts are whatever the stack held.
Update(dt, g) ==
  /\ pc = "idle"
  /\ ticks < MaxTicks
  /\ IntegrationExact(q, g, UsedDeltaTime(dt, millis, lastUpdate))
  /\ \E accRaw \in AccelRaw, magRaw \in MagRaw, magFailed \in BOOLEAN :
       /\ \E res \in {UpdateResult(q, yaw, bmm_mag, lastUpdate, hard_iron, scale,
                                    dt, millis, g, accRaw, magRaw)} :
              /\ q' = res.q
              /\ yaw' = res.yaw
              /\ pitch' = res.pitch
              /\ roll' = res.roll
              /\ bmm_mag' = res.mag
              /\ lastUpdate' = res.lastUpdate
              /\ deltaTime' = res.deltaTime
              /\ magHeading' = res.magHeading
              /\ yawDiff' = res.yawDiff
       /\ tick' = [dt |-> dt, g |-> g, magFailed |-> magFailed]
  /\ ticks' = ticks + 1
  /\ prevUpdateAt' = millis
  /\ lastOp' = "update"
  /\ UNCHANGED <<millis, magVars, mgrVars, pc, myIMU_q, myIMU_norm, myIMU_calls>>

\* the yaw part of update() alone (from "float yawDiff" to the two while
\* loops), on the current yaw and a heading
BlendYaw ==
  /\ pc = "idle"
  /\ lastOp = "constructor"
  /\ yawDiff' = YawDiff(yaw, magHeading)
  /\ yaw' = BlendedYaw(yaw, magHeading)
  /\ lastOp' = "blendYaw"
  /\ UNCHANGED <<millis, magVars, mgrVars, q, pitch, roll, lastUpdate, bmm_mag,
                 deltaTime, tick, ticks, prevUpdateAt, magHeading, pc,
                 myIMU_q, myIMU_norm, myIMU_calls>>

\* bound on the number of MahonyAHRSupdate calls of a run
MahonyCalls == 2

\* +infinity as a float value
Inf == <<1, 0>>

\* gyro rates in rad/s about each axis, both senses: with dt = 1 s the
\* increment has length 3/4 or 4/3, so every norm is a fraction
MahonyGyro ==
  { <<RInt(0), RInt(0), RInt(0)>> }
  \cup { <<r, RInt(0), RInt(0)>> : r \in {Rat(3, 2), Rat(-3, 2), Rat(8, 3), Rat(-8, 3)} }
  \cup { <<RInt(0), r, RInt(0)>> : r \in {Rat(3, 2), Rat(-3, 2), Rat(8, 3), Rat(-8, 3)} }
  \cup { <<RInt(0), RInt(0), r>> : r \in {Rat(3, 2), Rat(-3, 2), Rat(8, 3), Rat(-8, 3)} }

\* the dt arguments: 1 s and 2^127 s
MahonyDt == {Dt(1, 1, 0), Dt(1, 1, 127)}

\* norm = sqrt(q[0]*q[0] + ... + q[3]*q[3]) of MahonyAHRSupdate after
\* q += inc * 2^e
MahonyNorm(qv, inc, e) ==
  IF \E i \in Quat : IsNaN(qv[i])
  THEN NaN
  ELSE IF e = 0 \/ \A i \in Quat : inc[i] = RInt(0)
  THEN RatSqrt(NormSq(Sum4(qv, inc)))
  ELSE Inf

\* q[i] /= norm, four times, without a test of norm
MahonyAdvanced(qv, inc, e) ==
  IF \E i \in Quat : IsNaN(qv[i])
  THEN <<NaN, NaN, NaN, NaN>>
  ELSE IF e = 0 \/ \A i \in Quat : inc[i] = RInt(0)
  THEN IF NormSq(Sum4(qv, inc)) = RInt(0)
       THEN <<NaN, NaN, NaN, NaN>>                    \* 0.0f / 0.0f
       ELSE DividedBy(Sum4(qv, inc), RatSqrt(NormSq(Sum4(qv, inc))))
  ELSE <<OverInf(inc[1], e), OverInf(inc[2], e), OverInf(inc[3], e), OverInf(inc[4], e)>>

\* myIMU::MahonyAHRSupdate(gx, gy, gz, 0, 0, 0, mx, my, mz, dt): the all-zero
\* accelerometer sample skips the feedback block
MahonyAHRSupdate(g, dt) ==
  /\ pc = "idle"
  /\ myIMU_calls < MahonyCalls
  /\ IntegrationExact(myIMU_q, g, dt)
  /\ myIMU_norm' = MahonyNorm(myIMU_q, Increment(myIMU_q, g, dt), dt.e)
  /\ myIMU_q' = MahonyAdvanced(myIMU_q, Increment(myIMU_q, g, dt), dt.e)
  /\ myIMU_calls' = myIMU_calls + 1
  /\ lastOp' = "MahonyAHRSupdate"
  /\ UNCHANGED <<millis, magVars, mgrVars, pc, q, yaw, pitch, roll, lastUpdate,
                 bmm_mag, deltaTime, tick, ticks, prevUpdateAt, magHeading,
                 yawDiff>>

\* the rest of loop() between two calls of update()
FusionLoopDelay(d) ==
  /\ pc = "idle"
  /\ ticks < MaxTicks
  /\ millis = prevUpdateAt
  /\ millis' = millis + d
  /\ lastOp' = "loop"
  /\ UNCHANGED <<magVars, mgrVars, fusVars, pc>>

\* BMM150class::setCalibrationData: the six values are stored as given.  The
\* model calls it while the filter has not run yet.
setCalibrationData(hi, sc) ==
  /\ pc = "idle"
  /\ ticks = 0
  /\ hard_iron' = hi
  /\ scale' = sc
  /\ lastOp' = "setCalibrationData"
  /\ UNCHANGED <<millis, isCalibrated, bmm_min, bmm_max, bmm_calibrationStartTime,
                 bmm_sampleCount, elapsedTime, stepResult, imu_isCalibrated,
                 mgrVars, fusVars, pc>>

----------------------------------------------------------------------------
(* Construction *)

\* what the store can hold at power-up: nothing, a record marked invalid, or
\* the record of an earlier calibration
InvalidStore ==
  PutAll(SavedStore(EmptyStore,
                    [ResetData EXCEPT !.accelCalibrated = TRUE,
                                      !.magCalibrated = TRUE,
                                      !.magOffset = <<Rat(7, 1), Rat(7, 1), Rat(7, 1)>>,
                                      !.magScale = <<Rat(1, 2), Rat(1, 2), Rat(1, 2)>>,
                                      !.timestamp = 5]),
         << <<"cal_valid", FALSE>> >>)

ValidStore ==
  SavedStore(EmptyStore,
             [ResetData EXCEPT !.accelCalibrated = TRUE,
                               !.magCalibrated = TRUE,
                               !.accelOffset = <<Rat(0, 1), Rat(0, 1), Rat(1, 2)>>,
                               !.magOffset = <<Rat(3, 1), Rat(3, 1), Rat(3, 1)>>,
                               !.magScale = <<Rat(1, 4), Rat(1, 4), Rat(1, 4)>>,
                               !.timestamp = 9])

InitialStores == {EmptyStore, InvalidStore, ValidStore}

\* BMM150class::BMM150class() and IMUFusion::IMUFusion()
SensorsConstructed ==
  /\ hard_iron = [i \in Axes |-> Rat(0, 1)]
  /\ scale = [i \in Axes |-> Rat(1, 1)]
  /\ isCalibrated = FALSE
  /\ bmm_min = [i \in Axes |-> INT16_MAX]
  /\ bmm_max = [i \in Axes |-> INT16_MIN]
  /\ bmm_calibrationStartTime = 0
  /\ bmm_sampleCount = 0
  /\ elapsedTime = 0
  /\ stepResult = "none"
  /\ imu_isCalibrated = FALSE

\* CalibrationManager::CalibrationManager(); the min/max arrays are first
\* written by startCalibration and never read before
ManagerConstructed ==
  /\ calibrationState = "CAL_IDLE"
  /\ calibrationStartTime = 0
  /\ lastUpdateTime = 0
  /\ calibrationData = ResetData
  /\ accelMin = [i \in Axes |-> 0]
  /\ accelMax = [i \in Axes |-> 0]
  /\ magMin = [i \in Axes |-> 0]
  /\ magMax = [i \in Axes |-> 0]
  /\ sampleCount = 0
  /\ phase = "constructed"
  /\ overwritten = FALSE

\* the initializers of the globals of myMahonyAHRS.cpp
MahonyConstructed ==
  /\ myIMU_q = <<RInt(1), RInt(0), RInt(0), RInt(0)>>
  /\ myIMU_norm = RInt(1)
  /\ myIMU_calls = 0

\* IMUFusion::IMUFusion() and the output fields of BMM150class::BMM150class()
FusionConstructed ==
  /\ q = <<RInt(1), RInt(0), RInt(0), RInt(0)>>
  /\ yaw = RInt(0)
  /\ pitch = RInt(0)
  /\ roll = RInt(0)
  /\ lastUpdate = 0
  /\ bmm_mag = Zero3
  /\ deltaTime = Dt(0, 1, 0)
  /\ tick = [dt |-> Dt(0, 1, 0), g |-> <<RInt(0), RInt(0), RInt(0)>>,
             magFailed |-> FALSE]
  /\ ticks = 0
  /\ prevUpdateAt = 0
  /\ magHeading = RInt(0)
  /\ yawDiff = RInt(0)
  /\ MahonyConstructed

\* number of grid points on the circle for yaw and heading inputs
YawSteps == 24

\* angles in [0, 360)
YawInputs == { Rat(360 * i, YawSteps) : i \in 0..(YawSteps - 1) }

Init ==
  /\ millis = 0
  /\ SensorsConstructed
  /\ ManagerConstructed
  /\ FusionConstructed
  /\ preferences \in InitialStores
  /\ pc = "idle"
  /\ lastOp = "constructor"

InitMag == Init /\ preferences = EmptyStore

Next ==
  \/ MainLoopIdle
  \/ Begin
  \/ \E accel \in BOOLEAN, mag \in BOOLEAN : StartCalibration(accel, mag)
  \/ \E a \in AccelSamples, m \in MagSamples : UpdateCalibration(a, m)
  \/ CancelCalibration
  \/ LoadCalibrationData
  \/ SaveCalibrationData
  \/ ResetCalibration

Spec == Init /\ [][Next]_vars

NextMag ==
  \/ MainLoopIdle
  \/ CalibrateEnter
  \/ \E cancel \in BOOLEAN, s \in RawSamples, d \in LoopDelays :
        CalibrateIterate(cancel, s, d)
  \/ CalibrateMagnetometerEnter
  \/ \E cancel \in BOOLEAN, s \in RawSamples, d \in LoopDelays :
        CalibrateMagnetometerIterate(cancel, s, d)

SpecMag == InitMag /\ [][NextMag]_vars

NextFusion ==
  \/ \E dt \in DeltaTimes, g \in GyroSamples : Update(dt, g)
  \/ \E d \in FusionDelays : FusionLoopDelay(d)
  \/ \E c \in ManualCalibrations : setCalibrationData(c[1], c[2])

SpecFusion == InitMag /\ [][NextFusion]_vars

\* the yaw blend on every pair of a current yaw and a heading of the grid
InitYaw ==
  /\ millis = 0
  /\ SensorsConstructed
  /\ ManagerConstructed
  /\ q = <<RInt(1), RInt(0), RInt(0), RInt(0)>>
  /\ yaw \in YawInputs
  /\ pitch = RInt(0)
  /\ roll = RInt(0)
  /\ lastUpdate = 0
  /\ bmm_mag = Zero3
  /\ deltaTime = Dt(0, 1, 0)
  /\ tick = [dt |-> Dt(0, 1, 0), g |-> <<RInt(0), RInt(0), RInt(0)>>,
             magFailed |-> FALSE]
  /\ ticks = 0
  /\ prevUpdateAt = 0
  /\ magHeading \in YawInputs
  /\ yawDiff = RInt(0)
  /\ MahonyConstructed
  /\ preferences = EmptyStore
  /\ pc = "idle"
  /\ lastOp = "constructor"

NextYaw == BlendYaw

\* Sessions that run to their end.  The sketch is one thread: a blocking
\* loop is entered between two sessions of the manager, and the manager is
\* called between two blocking loops; sessions of either kind are requested
\* at the instants at which the main loop may request one.  millis() is an unsigned long; a
\* negative millis stands for millis + 2^32, so that the clock passes from
\* -1 to 0 where the counter wraps and (millis - start) is the unsigned
\* difference.
LiveSamples == { <<0, 0, 0>>, <<800, 800, 240>> }

\* duration of one iteration of a blocking loop, delay(50) included: a slow
\* pass and a stall of a whole window
LiveDelays == {5000, 15000}

InitLive ==
  /\ millis \in {0, -SessionSlotMs}
  /\ SensorsConstructed
  /\ ManagerConstructed
  /\ FusionConstructed
  /\ preferences = EmptyStore
  /\ pc = "idle"
  /\ lastOp = "constructor"

\* a loop is entered while the longest session still ends before MaxMillis:
\* the last collecting step begins before the window ends, and each step is
\* followed by a delay of at most one window
SessionFits == millis + 2 * CalibrationWindowMs <= MaxMillis

LoopStep == \E s \in LiveSamples, d \in LiveDelays : CalibrateIterate(FALSE, s, d)

FusionLoopStep ==
  \E s \in LiveSamples, d \in LiveDelays : CalibrateMagnetometerIterate(FALSE, s, d)

ManagerStep ==
  \E a \in AccelSamples, m \in MagSamples : pc = "idle" /\ UpdateCalibration(a, m)

NextLive ==
  \/ MainLoopIdle
  \/ BetweenSessions /\ SessionFits /\ CalibrateEnter
  \/ BetweenSessions /\ SessionFits /\ CalibrateMagnetometerEnter
  \/ LoopStep
  \/ FusionLoopStep
  \/ \E s \in LiveSamples, d \in LiveDelays : CalibrateIterate(TRUE, s, d)
  \/ \E s \in LiveSamples, d \in LiveDelays : CalibrateMagnetometerIterate(TRUE, s, d)
  \/ pc = "idle" /\ Begin
  \/ \E accel \in BOOLEAN, mag \in BOOLEAN :
        /\ pc = "idle" /\ BetweenSessions /\ millis % SessionSlotMs = 0
        /\ StartCalibration(accel, mag)
  \/ ManagerStep

\* a loop that is running runs its next iteration; the sketch keeps calling
\* updateCalibration()
SpecLive ==
  /\ InitLive
  /\ [][NextLive]_vars
  /\ WF_vars(LoopStep)
  /\ WF_vars(FusionLoopStep)
  /\ WF_vars(ManagerStep)

NextMahony == \E g \in MahonyGyro, dt \in MahonyDt : MahonyAHRSupdate(g, dt)

SpecMahony == InitMag /\ [][NextMahony]_vars

SpecYaw == InitYaw /\ [][NextYaw]_vars

----------------------------------------------------------------------------
(* Properties of the magnetometer calibration (checked under SpecMag) *)

\* a calibrateStep(false) call has just returned Done: the session completed
SessionCompleted == lastOp = "calibrateStep(false)" /\ stepResult = "Done"

\* max - min of axis i in the session that just ran
FullRange(i) == bmm_max[i] - bmm_min[i]

LoRange == Min2(FullRange(1), Min2(FullRange(2), FullRange(3)))
HiRange == Max2(FullRange(1), Max2(FullRange(2), FullRange(3)))

\* C1: after a completed session in which some axis has max - min < 100, the
\* calibration-status flags exposed to consumers are all false
C1_FlagsFalseAfterPoorSession ==
  (SessionCompleted /\ \E i \in Axes : FullRange(i) < 100)
     => (~isCalibrated /\ ~imu_isCalibrated)

\* C2 as stated: at completion the flag is true iff every max - min is >= 100
\* and min(range) / max(range) >= 0.3
C2_FlagIffFullRangeGate ==
  SessionCompleted =>
     (isCalibrated <=> ( /\ \A i \in Axes : FullRange(i) >= 100
                         /\ 10 * LoRange >= 3 * HiRange ))

\* C2 amended: at completion the flag is true only if every half-range
\* (max - min) / 2 is >= 100 and min(range) / max(range) >= 0.3, and it is
\* true whenever every half-range is >= 100 and the ratio exceeds 0.3
C2_FlagHalfRangeGate ==
  SessionCompleted =>
     /\ isCalibrated => ( /\ \A i \in Axes : FullRange(i) >= 200
                          /\ 10 * LoRange >= 3 * HiRange )
     /\ ( /\ \A i \in Axes : FullRange(i) >= 200
          /\ 10 * LoRange > 3 * HiRange ) => isCalibrated

\* a session passed the gate on half-ranges 100, 100, 100
C2_Witness ==
  /\ SessionCompleted
  /\ isCalibrated
  /\ \A i \in Axes : FullRange(i) = 200

\* C4 as stated: a step returns Done exactly when 15 s have elapsed or 100
\* samples have been collected
C4_DoneOnTimeOrSamples ==
  lastOp = "calibrateStep(false)" =>
     (stepResult = "Done"
        <=> (elapsedTime >= 15000 \/ bmm_sampleCount >= 100))

\* C4 amended: a step returns Done exactly when 15 s have elapsed since the
\* first step, whatever the number of samples, and InProgress before that
C4_DoneOnTimeOnly ==
  lastOp = "calibrateStep(false)" =>
     (stepResult = "Done" <=> elapsedTime >= 15000)

\* a step returned InProgress with 100 samples collected
C4_Witness ==
  /\ lastOp = "calibrateStep(false)"
  /\ stepResult = "InProgress"
  /\ bmm_sampleCount >= 100
  /\ elapsedTime < 15000

\* C9: a session that fails the gate still stores the centre of every axis as
\* offset and avgRange / range as scale, with the flag false
C9_PoorSessionStillStored ==
  (SessionCompleted /\ (LoRange < 200 \/ 10 * LoRange < 3 * HiRange)) =>
     /\ ~isCalibrated
     /\ \A i \in Axes :
          /\ hard_iron[i] = Rat(bmm_min[i] + bmm_max[i], 2)
          /\ LET r == [j \in Axes |-> Max2(FullRange(j), 2)]
             IN  3 * r[i] * scale[i][1] = (r[1] + r[2] + r[3]) * scale[i][2]

\* the session with X and Y ranges 1000 and Z range 100 completed
C9_Witness ==
  /\ SessionCompleted
  /\ FullRange(1) = 1000 /\ FullRange(2) = 1000 /\ FullRange(3) = 100
  /\ hard_iron = <<Rat(500, 1), Rat(500, 1), Rat(50, 1)>>
  /\ ~isCalibrated

----------------------------------------------------------------------------
(* Properties of the CalibrationManager (checked under Spec) *)

\* a session is in progress
SessionInProgress == calibrationState \notin {"CAL_IDLE", "CAL_COMPLETE"}

\* max - min of magnetometer axis i over the manager's last collection
MagRange(i) == magMax[i] - magMin[i]

\* the quality gate on the manager's last magnetometer collection
MagGatePassed ==
  /\ \A i \in Axes : MagRange(i) >= 100
  /\ 10 * Min2(MagRange(1), Min2(MagRange(2), MagRange(3)))
        >= 3 * Max2(MagRange(1), Max2(MagRange(2), MagRange(3)))

\* C3: a cancel during a session leads to Idle, and no step of the session,
\* from its start on, has changed the calibration data in memory or the store
C3_CancelLeavesDataUntouched ==
  [][(CancelCalibration /\ SessionInProgress)
        => (calibrationState' = "CAL_IDLE" /\ ~overwritten)]_vars

\* C5: the machine is in its completed state only after a collection that
\* passed the quality gate; a failed gate ends elsewhere
C5_CompleteOnlyAfterPassedGate ==
  calibrationState = "CAL_COMPLETE" => MagGatePassed

\* C6: the store changes only as the result of a session that ran to
\* completion and passed the quality gate
C6_StoreWrittenOnlyByPassedSession ==
  [][preferences' # preferences
        => (calibrationState = "CAL_COMPLETE" /\ MagGatePassed)]_vars

\* C7: once a session has reached its completed state with a result that
\* passed the gate, the store holds that result and its timestamp
C7_StoreHoldsResultAtCompletion ==
  (calibrationState = "CAL_COMPLETE" /\ IsCalibratedData(calibrationData)
     /\ MagGatePassed)
     => preferences = SavedStore(preferences, calibrationData)

\* C8: after constructor and begin() on a store without the validity key or
\* with a false validity flag, isCalibrated() is false, offsets are 0 and
\* scales are 1
C8_DefaultsWithoutStoredData ==
  (phase = "begun" /\ ~Get(preferences, "cal_valid", FALSE)) =>
     /\ ~IsCalibratedData(calibrationData)
     /\ ~calibrationData.accelCalibrated /\ ~calibrationData.magCalibrated
     /\ calibrationData.accelOffset = <<Rat(0, 1), Rat(0, 1), Rat(0, 1)>>
     /\ calibrationData.magOffset = <<Rat(0, 1), Rat(0, 1), Rat(0, 1)>>
     /\ calibrationData.accelScale = <<Rat(1, 1), Rat(1, 1), Rat(1, 1)>>
     /\ calibrationData.magScale = <<Rat(1, 1), Rat(1, 1), Rat(1, 1)>>

\* begin() has run on a store whose validity flag is present and false
C8_Witness ==
  /\ phase = "begun"
  /\ isKey(preferences, "cal_valid")
  /\ ~Get(preferences, "cal_valid", FALSE)
  /\ isKey(preferences, "mag_ox")

-----------------------------------------------------------------------------
(* Claims on the scale law and on the shape of the interface *)

\* range[i] of the manager's last magnetometer collection: max - min, or the
\* threshold 0.01 of calculateMagCalibration when that is larger
MagRangeEps(i) == IF MagRange(i) >= 1 THEN RInt(MagRange(i)) ELSE Rat(1, 100)

MagAvgRange ==
  RMul(RAdd(RAdd(MagRangeEps(1), MagRangeEps(2)), MagRangeEps(3)), Rat(1, 3))

\* C11: when a magnetometer calibration has completed, scale[i] * range[i]
\* equals the mean of the three ranges, on every axis
C11_ScaleTimesRangeIsAvgRange ==
  calibrationState = "CAL_MAG_COMPLETE" =>
     \A i \in Axes : RMul(calibrationData.magScale[i], MagRangeEps(i)) = MagAvgRange

\* C18: after a calibration step that has not finished the session, the
\* operation that made the step has returned to the control loop
C18_StepReturnsToControlLoop ==
  (lastOp \in {"calibrateStep(true)", "calibrateStep(false)"}
     /\ stepResult = "InProgress")
     => pc = "idle"

-----------------------------------------------------------------------------
(* Claims on the orientation filter *)

\* the last step was a call of update()
Ticked == ticks' = ticks + 1

AtRest == <<RInt(0), RInt(0), RInt(0)>>

\* C12: every magnetometer scale factor, of the sensor object and of the
\* manager, is positive and finite in every reachable state
C12_ScalePositiveAndFinite ==
  \A i \in Axes :
     /\ scale[i][1] > 0 /\ scale[i][2] > 0
     /\ calibrationData.magScale[i][1] > 0 /\ calibrationData.magScale[i][2] > 0

\* C13: the step update(dt) integrates with is dt when 0 < dt <= 1 s and
\* the fallback of 10 ms otherwise
C13_StepIsDtOrFallback ==
  ticks > 0 =>
     deltaTime = IF tick.dt.e = 0 /\ RLt(RInt(0), tick.dt.s) /\ RLe(tick.dt.s, RInt(1))
                 THEN tick.dt
                 ELSE FallbackDeltaTime

\* no calibration has been established: the flags of the sensor object, of
\* the filter and of the manager are all false
Uncalibrated ==
  ~isCalibrated /\ ~imu_isCalibrated /\ ~IsCalibratedData(calibrationData)

\* yaw, pitch, roll and quaternion after the step are those of the record r
SameOrientation(r) == r.q = q' /\ r.yaw = yaw' /\ r.pitch = pitch' /\ r.roll = roll'

\* C14: while the magnetometer is not calibrated, the orientation after an
\* update() is the one any other magnetometer sample would have given from
\* the same state (with the step's dt and gyro rate, and its accelerometer
\* sample, which the history does not record)
C14_UncalibratedIgnoresMagnetometer ==
  [][(Ticked /\ Uncalibrated) =>
        \A m2 \in MagRaw : \E a \in AccelRaw :
           SameOrientation(UpdateResult(q, yaw, bmm_mag, lastUpdate, hard_iron, scale,
                                        tick'.dt, millis, tick'.g, a, m2))]_vars

\* magnetic declinations the heading is read with
Declinations == {RInt(0), Rat(15, 2), RInt(-400)}

InRange(x, lo, hi) == RLe(RInt(lo), x) /\ RLe(x, RInt(hi))

\* C15: in every reachable state yaw() with any declination is in [0, 360),
\* pitch is in [-90, 90] and roll is in [-180, 180]
C15_AnglesInRange ==
  /\ \A d \in Declinations :
        RLe(RInt(0), getYaw(yaw, d)) /\ RLt(getYaw(yaw, d), RInt(360))
  /\ InRange(pitch, -90, 90)
  /\ InRange(roll, -180, 180)

\* C16: after every update() the quaternion has norm 1
C16_UnitQuaternion == ticks > 0 => NormSq(q) = RInt(1)

\* C17: an update() whose magnetometer vector has norm 0 applies no
\* magnetometer correction: with the gyro at rest the orientation stays as
\* it was
C17_ZeroNormSampleNotApplied ==
  [][(Ticked /\ bmm_mag' = Zero3 /\ tick'.g = AtRest) =>
        (q' = q /\ yaw' = yaw /\ pitch' = pitch /\ roll' = roll)]_vars

\* the yaw the step has added, in [0, 360)
YawAdvance == Wrap360(RSub(yaw', yaw))

\* C19: an update() over 1.0 s with the gyro turning at 1.5 rad/s (86 deg/s)
\* about z, in which the magnetometer heading agrees with the yaw held
\* before (zero correction), advances yaw by about 90 degrees: by 60 to 120
\* degrees, which admits the 74 degrees of one first-order quaternion step
C19_GyroRateAdvancesYaw ==
  [][(Ticked /\ tick'.g = <<RInt(0), RInt(0), Rat(3, 2)>> /\ deltaTime' = Dt(1, 1, 0)
        /\ calculateTiltCompensatedHeading(bmm_mag', pitch', roll') = yaw)
       => (RLe(RInt(60), YawAdvance) /\ RLe(YawAdvance, RInt(120)))]_vars

\* C20: an update() whose magnetometer read returned too few bytes does not
\* use that reading: the magnetometer output keeps its value and, with the
\* gyro at rest, so does the orientation
C20_FailedReadNotUsed ==
  [][(Ticked /\ tick'.magFailed /\ tick'.g = AtRest) =>
        (bmm_mag' = bmm_mag /\ q' = q /\ yaw' = yaw /\ pitch' = pitch /\ roll' = roll)]_vars

\* the time since the preceding update() call (since construction for the
\* first), as a step
SincePrevious == [s |-> Rat(millis - prevUpdateAt, 1000), e |-> 0]

\* C21: an update() that takes dt from the clock uses the time elapsed since
\* the call of update() before it, whenever that time is a valid step
\* (above 0 and at most 1 s)
C21_MeasuredFromPrecedingCall ==
  [][(Ticked /\ tick'.dt.s[1] <= 0
        /\ RLt(RInt(0), SincePrevious.s) /\ RLe(SincePrevious.s, RInt(1)))
       => deltaTime' = SincePrevious]_vars

BlendedNow == lastOp' = "blendYaw" /\ lastOp = "constructor"

\* C22: for yaw and heading in [0, 360) the yaw difference of the blend is in
\* [-180, 180] and differs from heading - yaw by a multiple of 360, and the
\* blended yaw is back in [0, 360)
C22_ShortestPathDifference ==
  [][BlendedNow =>
       /\ RLe(RInt(-180), yawDiff') /\ RLe(yawDiff', RInt(180))
       /\ RSub(yawDiff', RSub(magHeading, yaw)) \in {RInt(-360), RInt(0), RInt(360)}
       /\ RLe(RInt(0), yaw') /\ RLt(yaw', RInt(360))]_vars

\* a blend whose raw difference was above 180: the difference used is negative
\* although the heading is the larger angle
C22_Witness ==
  /\ lastOp = "blendYaw"
  /\ RLt(yawDiff, RInt(0))
  /\ RLt(RAdd(yaw, RInt(180)), magHeading)

\* C23: after the first magnetometer sample of a session the running minimum
\* and maximum of every axis are both that sample
C23_FirstSampleReplacesBoth ==
  (calibrationState = "CAL_MAG_COLLECT" /\ sampleCount = 1) => magMin = magMax

\* C24: entering a session, a step that does not end it and the observation
\* of cancel leave hard-iron offsets, scales and both calibrated flags as they
\* were, so a cancelled session ends with the values from before the session,
\* also when the 15 s are over at the moment of the cancel
C24_CancelKeepsPreSessionValues ==
  [][((pc # "idle" /\ lastOp' = "cancel") \/ pc' # "idle")
       => UNCHANGED <<hard_iron, scale, isCalibrated, imu_isCalibrated>>]_vars

\* a session cancelled after its window had elapsed, an earlier session
\* having set the flag
C24_Witness ==
  /\ lastOp = "cancel"
  /\ millis - bmm_calibrationStartTime >= CalibrationWindowMs
  /\ isCalibrated

\* what readMagnetometer makes of the raw count v on axis i before the
\* low-pass filter, with the calibration now in force
Corrected(i, v) == Calibrated(v, hard_iron[i], scale[i])

\* C25: after a completed session with min < max on every axis the corrected
\* min and max of each axis are equal in magnitude and opposite in sign, and
\* the magnitude is the same on the three axes
C25_CorrectionCentredAndSpherical ==
  (stepResult = "Done" /\ \A i \in Axes : bmm_min[i] < bmm_max[i])
    => /\ \A i \in Axes :
            Corrected(i, bmm_min[i]) = RNeg(Corrected(i, bmm_max[i]))
       /\ \A i, j \in Axes :
            Corrected(i, bmm_max[i]) = Corrected(j, bmm_max[j])

\* C26: a quaternion norm of zero at the normalization step of
\* MahonyAHRSupdate is not divided by: no component becomes NaN
C26_ZeroNormNotDividedBy ==
  (lastOp = "MahonyAHRSupdate" /\ myIMU_norm = RInt(0))
    => \A i \in Quat : ~IsNaN(myIMU_q[i])

\* C27: a started session of the manager reaches CAL_COMPLETE, and a blocking
\* calibration loop returns, also when millis() wraps during the session; the
\* bound on the clock never keeps a loop from its next iteration
C27_SessionsTerminate ==
  /\ (calibrationState \notin {"CAL_IDLE", "CAL_COMPLETE"})
        ~> (calibrationState = "CAL_COMPLETE")
  /\ (pc # "idle") ~> (pc = "idle")
  /\ [](pc # "idle" => \E d \in LiveDelays : millis + d <= MaxMillis)

\* a loop that began before the wrap of millis() has returned after it, and
\* a session of the manager has completed
C27_Witness ==
  /\ pc = "idle"
  /\ stepResult = "Done"
  /\ bmm_calibrationStartTime < 0
  /\ millis >= 0
  /\ calibrationState = "CAL_COMPLETE"

\* C28: the status reports a stage in 0..3 and a progress in [0,1], complete
\* exactly in CAL_COMPLETE, calibrating exactly in the states other than
\* CAL_IDLE and CAL_COMPLETE, and in a COLLECT state the sample count is at
\* least 0 and below requiredSamples
C28_StatusInRange ==
  /\ StatusStage \in 0..3
  /\ RLe(RInt(0), StatusProgress) /\ RLe(StatusProgress, RInt(1))
  /\ StatusIsComplete <=> calibrationState = "CAL_COMPLETE"
  /\ isCalibrating <=> calibrationState \notin {"CAL_IDLE", "CAL_COMPLETE"}
  /\ calibrationState \in {"CAL_ACCEL_COLLECT", "CAL_MAG_COLLECT"}
       => (0 <= sampleCount /\ sampleCount < requiredSamples)

\* the magnetometer stage one sample before its end, after a complete
\* accelerometer stage
C28_Witness ==
  /\ calibrationState = "CAL_MAG_COLLECT"
  /\ sampleCount = requiredSamples - 1
  /\ calibrationData.accelCalibrated

ManagerFields ==
  <<calibrationState, calibrationData, sampleCount, accelMin, accelMax, magMin,
    magMax, calibrationStartTime, lastUpdateTime>>

\* C29: updateCalibration() and cancelCalibration() in CAL_IDLE or
\* CAL_COMPLETE leave state, data, sample count, min/max and timestamps as
\* they are, and a step that leaves CAL_COMPLETE is a startCalibration
C29_NoEffectBetweenSessions ==
  [][/\ (BetweenSessions /\ lastOp' \in {"updateCalibration", "cancelCalibration"}
           /\ ((\E a \in AccelSamples, m \in MagSamples : UpdateCalibration(a, m))
                 \/ CancelCalibration))
          => UNCHANGED ManagerFields
     /\ (calibrationState = "CAL_COMPLETE" /\ calibrationState' # "CAL_COMPLETE")
          => \E accel \in BOOLEAN, mag \in BOOLEAN : StartCalibration(accel, mag)]_vars

\* cancelCalibration() has been called on a completed session
C29_Witness ==
  /\ calibrationState = "CAL_COMPLETE"
  /\ lastOp = "cancelCalibration"

\* C30: a saveCalibrationData() on calibrated data leaves a store from which
\* loadCalibrationData() on a manager just reset returns true with exactly
\* the saved offsets, scales, flags and timestamp; on data that is not
\* calibrated it leaves the store as it is
C30_SaveLoadRoundTrip ==
  [][SaveCalibrationData
       => IF IsCalibratedData(calibrationData)
          THEN LoadedData(preferences', ResetData)
                 = [data |-> calibrationData, ok |-> TRUE]
          ELSE preferences' = preferences]_vars

\* a store written by a save of this run, holding the result of a session
\* that completed after time had passed
C30_Witness ==
  /\ preferences \notin InitialStores
  /\ IsCalibratedData(calibrationData)
  /\ calibrationData.timestamp > 0
  /\ LoadedData(preferences, ResetData).data = calibrationData

=============================================================================
